---- MODULE Spec2Model ----
(***************************************************************************)
(* Label propagation (LPA) with modularity scoring: src/main.rs.           *)
(*                                                                         *)
(* The model follows main(): load() builds the adjacency lists from an     *)
(* edge file, lpa() runs rounds of concurrent per-vertex label updates,    *)
(* statistics() scores every joined round and lpa() keeps the best one.    *)
(*                                                                         *)
(* Concurrency: one rayon task per vertex and round.  Every atomic         *)
(* operation of a task (the load of one neighbour's cell, the swap of its  *)
(* own cell, the fetch_add on `active`) is one step, and the steps of the  *)
(* tasks of a round interleave freely.  rayon's for_each returns only      *)
(* after every task has returned (fork-join).                              *)
(*                                                                         *)
(* Numbers: an f64 is modelled as NaN or an exact fraction num/den with    *)
(* den > 0.  The only non-finite results statistics() can produce come     *)
(* from the division by m2 = 0, and they all end as NaN (see Term).        *)
(* Rounding of f64 is not modelled.                                        *)
(***************************************************************************)
EXTENDS Integers, Sequences, FiniteSets, TLC

\* Bounds of the explored inputs.
MaxVertices == 3
MaxRows == 2
MaxLimit == 2
MaxReads == 6

---------------------------------------------------------------------------
(* f64 values *)

NaN == [nan |-> TRUE, num |-> 0, den |-> 1]

Frac(a, b) == [nan |-> FALSE, num |-> a, den |-> b]

IsNaN(x) == x.nan

\* x > y on f64: false as soon as one side is NaN.
Gt(x, y) == ~x.nan /\ ~y.nan /\ x.num * y.den > y.num * x.den

\* x == y on f64 values (NaN equals nothing).
FEq(x, y) == ~x.nan /\ ~y.nan /\ x.num * y.den = y.num * x.den

Ge(x, y) == Gt(x, y) \/ FEq(x, y)

\* x + y where both are fractions over the same denominator, or NaN.
FAdd(x, y) ==
    IF x.nan \/ y.nan THEN NaN
    ELSE IF x.den = y.den THEN Frac(x.num + y.num, x.den)
    ELSE Frac(x.num * y.den + y.num * x.den, x.den * y.den)

---------------------------------------------------------------------------
(* Inputs: the edge file read by load() *)

Ids(n) == 0 .. (n - 1)

RECURSIVE SeqsUpTo(_, _)
SeqsUpTo(S, k) ==
    IF k = 0 THEN {<<>>}
    ELSE LET shorter == SeqsUpTo(S, k - 1)
         IN  shorter \cup {Append(s, x) : s \in {t \in shorter : Len(t) = k - 1}, x \in S}

\* A file: the header (nvertices, nedges) and the rows (src, dst) that parse.
File(n, m, rows) == [nvertices |-> n, nedges |-> m, rows |-> rows]

\* The rows considered: load() treats (src, dst) and (dst, src) alike (it pushes
\* each end to the other's list), so rows are taken with src <= dst.
Rows == {r \in Ids(MaxVertices) \X Ids(MaxVertices) : r[1] <= r[2]}

\* Every file within the bounds; the header's edge count is whatever the file says.
Files ==
    {File(n, m, rows) :
        n \in 0 .. MaxVertices,
        m \in 0 .. MaxRows,
        rows \in SeqsUpTo(Rows, MaxRows)}

\* Path of 4 vertices.
PathFile == File(4, 3, << <<0, 1>>, <<1, 2>>, <<2, 3>> >>)

\* Two disjoint triangles.
TrianglesFile ==
    File(6, 6, << <<0, 1>>, <<1, 2>>, <<0, 2>>, <<3, 4>>, <<4, 5>>, <<3, 5>> >>)

\* A triangle and one vertex without edges.
IsolatedFile == File(4, 3, << <<0, 1>>, <<1, 2>>, <<0, 2>> >>)

\* A star: vertex 0 with MaxReads neighbours, 1 .. MaxReads, in that order.
StarFile == File(MaxReads + 1, MaxReads, [i \in 1 .. MaxReads |-> <<0, i>>])

\* opts.limit is an i64: the option parser accepts a negative limit.
Limits == {-1} \cup (0 .. MaxLimit)

\* The vertices connected to a vertex of S by the lists es.
RECURSIVE Closure(_, _)
Closure(S, es) ==
    LET T == S \cup UNION {{es[u][i] : i \in 1 .. Len(es[u])} : u \in S}
    IN  IF T = S THEN S ELSE Closure(T, es)

\* A connected component is named by its least vertex.
ComponentOf(v, es) ==
    LET C == Closure({v}, es)
    IN  CHOOSE c \in C : \A u \in C : c <= u

RowsInRange(f) ==
    \A i \in 1 .. Len(f.rows) :
        f.rows[i][1] < f.nvertices /\ f.rows[i][2] < f.nvertices

\* edges after the receive loop: each row pushes dst to src's list, then src to dst's.
RECURSIVE Adjacency(_, _)
Adjacency(n, rows) ==
    IF rows = <<>> THEN [v \in Ids(n) |-> <<>>]
    ELSE LET e    == Adjacency(n, SubSeq(rows, 1, Len(rows) - 1))
             src  == rows[Len(rows)][1]
             dst  == rows[Len(rows)][2]
             e1   == [e EXCEPT ![src] = Append(@, dst)]
         IN  [e1 EXCEPT ![dst] = Append(@, src)]

---------------------------------------------------------------------------
(* statistics() *)

RECURSIVE SumOver(_, _)
SumOver(S, f) ==
    IF S = {} THEN 0
    ELSE LET x == CHOOSE y \in S : TRUE
         IN  f[x] + SumOver(S \ {x}, f)

\* communities[label] after the grouping pass.
Communities(vs) == [L \in DOMAIN vs |-> {id \in DOMAIN vs : vs[id] = L}]

\* communities_count.len()
CommunityCount(vs) == Cardinality({vs[id] : id \in DOMAIN vs})

\* lv: (vertex, neighbour) pairs with both ends in the community.
Lv(C, es) ==
    SumOver(C, [id \in C |-> Cardinality({i \in 1 .. Len(es[id]) : es[id][i] \in C})])

\* dv: sum of the degrees of the community's vertices.
Dv(C, es) == SumOver(C, [id \in C |-> Len(es[id])])

\* One community's term  lv/m2 - (dv/m2)*(dv/m2)  with m2 = (nedges * 2) as f64.
\* With m2 = 0 a non-empty community gives 0/0 or inf - inf*inf, both NaN.
Term(C, es, m) ==
    LET m2 == m * 2
    IN  IF C = {} THEN Frac(0, IF m2 = 0 THEN 1 ELSE m2 * m2)
        ELSE IF m2 = 0 THEN NaN
        ELSE Frac(Lv(C, es) * m2 - Dv(C, es) * Dv(C, es), m2 * m2)

RECURSIVE FSum(_, _)
FSum(S, f) ==
    IF S = {} THEN Frac(0, 1)
    ELSE LET x == CHOOSE y \in S : TRUE
         IN  IF S = {x} THEN f[x] ELSE FAdd(f[x], FSum(S \ {x}, f))

Modularity(vs, es, m) ==
    LET cs == Communities(vs)
    IN  FSum(DOMAIN vs, [L \in DOMAIN vs |-> Term(cs[L], es, m)])

statistics(vs, es, m) == <<CommunityCount(vs), Modularity(vs, es, m)>>

---------------------------------------------------------------------------
(* State *)

VARIABLES
    file,             \* the input file and
    limit,            \* opts.limit
    pc,               \* where main is: load, init, loop, round, done, panic
    vertices,         \* main's `vertices`: the input labels, then the best assignment
    edges,            \* adjacency lists
    nedges,           \* edge count of the header
    community,        \* result of the last statistics call
    modularity,
    atomic_vertices,  \* the label cells
    active,
    iteration,
    best_community,
    best_modularity,
    task,             \* per vertex: the state of its closure in the current round
    round_start,      \* history: the cells when the last round was forked
    component         \* derived from edges: the connected component of each vertex

vars == <<file, limit, pc, vertices, edges, nedges, community, modularity,
          atomic_vertices, active, iteration, best_community, best_modularity, task,
          round_start, component>>

inputs == <<file, limit>>
graph == <<edges, nedges, component>>
tracker == <<vertices, best_community, best_modularity>>

\* A closure that is not running: before its task starts and after it returns.
Idle == [at |-> "idle", idx |-> 0, new_label |-> 0, max_count |-> 0,
         counter |-> 0, label_counts |-> <<>>]

Sentinel == Frac(-1, 1)

InitWith(fs) ==
    /\ file \in fs
    /\ limit \in Limits
    /\ pc = "load"
    /\ vertices = <<>>
    /\ edges = <<>>
    /\ nedges = 0
    /\ community = 0
    /\ modularity = Frac(0, 1)
    /\ atomic_vertices = <<>>
    /\ active = 0
    /\ iteration = 0
    /\ best_community = 0
    /\ best_modularity = Sentinel
    /\ task = <<>>
    /\ round_start = <<>>
    /\ component = <<>>

Init == InitWith(Files \cup {PathFile})

---------------------------------------------------------------------------
(* main: load *)

\* load() indexes edges[src] and edges[dst]: a row naming a vertex outside
\* [0, nvertices) panics there, before lpa is called.
Load ==
    /\ pc = "load"
    /\ IF RowsInRange(file)
       THEN /\ vertices' = [v \in Ids(file.nvertices) |-> v]
            /\ edges' = Adjacency(file.nvertices, file.rows)
            /\ nedges' = file.nedges
            /\ component' = [v \in Ids(file.nvertices) |->
                                ComponentOf(v, Adjacency(file.nvertices, file.rows))]
            /\ pc' = "init"
       ELSE /\ pc' = "panic"
            /\ UNCHANGED <<vertices, edges, nedges, component>>
    /\ UNCHANGED <<inputs, community, modularity, atomic_vertices, active, iteration,
                   best_community, best_modularity, task, round_start>>

---------------------------------------------------------------------------
(* lpa *)

\* AtomicU64::new(vertices.len())
InitialActive(vs) == Cardinality(DOMAIN vs)

\* Mutant: the loop no longer stops when a round changed nothing.
LoopCondition_IgnoresActive(it, lim, act) == it < lim

\* The while condition.
LoopCondition(it, lim, act) == it < lim /\ act > 0

\* Mutant: every round overwrites the best.
Improves_Always(m, best) == TRUE

\* The tracker's test.
Improves(m, best) == Gt(m, best)

\* lpa up to the first loop test: the INIT statistics (printed only), the
\* label cells, the active counter, the round counter and the sentinel best.
LpaInit ==
    /\ pc = "init"
    /\ community' = statistics(vertices, edges, nedges)[1]
    /\ modularity' = statistics(vertices, edges, nedges)[2]
    /\ atomic_vertices' = vertices
    /\ active' = InitialActive(vertices)
    /\ iteration' = 0
    /\ best_community' = 0
    /\ best_modularity' = Sentinel
    /\ task' = [v \in DOMAIN vertices |-> Idle]
    /\ round_start' = vertices
    /\ pc' = "loop"
    /\ UNCHANGED <<inputs, graph, vertices>>

\* Mutant: the closure starts from label 0 instead of its own cell's value.
Locals_FromZero(v, labels) ==
    [at |-> IF Len(edges[v]) = 0 THEN "swap" ELSE "scan",
     idx |-> 1,
     new_label |-> 0,
     max_count |-> 0,
     counter |-> 0,
     label_counts |-> [L \in DOMAIN labels |-> 0]]

\* Mutant: the closure starts from the mirror image of its own cell's value.
Locals_Mirrored(v, labels) ==
    [at |-> IF Len(edges[v]) = 0 THEN "swap" ELSE "scan",
     idx |-> 1,
     new_label |-> Cardinality(DOMAIN labels) - 1 - labels[v],
     max_count |-> 0,
     counter |-> 0,
     label_counts |-> [L \in DOMAIN labels |-> 0]]

\* Mutant: the closure starts from a value that is no vertex id.
Locals_OutOfRange(v, labels) ==
    [at |-> IF Len(edges[v]) = 0 THEN "swap" ELSE "scan",
     idx |-> 1,
     new_label |-> Cardinality(DOMAIN labels),
     max_count |-> 0,
     counter |-> 0,
     label_counts |-> [L \in DOMAIN labels |-> 0]]

\* The closure's locals before its for loop, with the cells as in `labels`; a
\* vertex without neighbours goes straight to the swap.
Locals(v, labels) ==
    [at |-> IF Len(edges[v]) = 0 THEN "swap" ELSE "scan",
     idx |-> 1,
     new_label |-> labels[v],
     max_count |-> 0,
     counter |-> 0,
     label_counts |-> [L \in DOMAIN labels |-> 0]]

Started(v) == Locals(v, atomic_vertices)

\* The loop test holds: active is reset and the round's tasks are forked.
\* A task's first load is of its own cell, which no other task writes, so it
\* reads the value the cell has when the round starts.
BeginRound ==
    /\ pc = "loop"
    /\ LoopCondition(iteration, limit, active)
    /\ active' = 0
    /\ task' = [v \in DOMAIN atomic_vertices |-> Started(v)]
    /\ round_start' = atomic_vertices
    /\ pc' = "round"
    /\ UNCHANGED <<inputs, graph, tracker, community, modularity, atomic_vertices,
                   iteration>>

\* The loop test fails: lpa returns (best_community, best_modularity).
Return ==
    /\ pc = "loop"
    /\ ~LoopCondition(iteration, limit, active)
    /\ pc' = "done"
    /\ UNCHANGED <<inputs, graph, tracker, community, modularity, atomic_vertices,
                   active, iteration, task, round_start>>

\* Mutant: the draw never succeeds.
GenRatio_Never(denominator) == {FALSE}

\* rng.gen_ratio(1, counter + 1): certain when the ratio is 1/1.
GenRatio(denominator) == IF denominator = 1 THEN {TRUE} ELSE BOOLEAN

\* Mutant: a strictly larger count no longer takes the neighbour's label.
Tally_KeepsLabel(t, nbr_label, draw) ==
    LET count == t.label_counts[nbr_label] + 1
        t1    == [t EXCEPT !.label_counts[nbr_label] = count, !.idx = @ + 1]
    IN  IF count > t.max_count
        THEN [t1 EXCEPT !.max_count = count, !.counter = 1]
        ELSE IF count = t.max_count
        THEN [t1 EXCEPT !.new_label = IF draw THEN nbr_label ELSE @,
                        !.counter = @ + 1]
        ELSE t1

\* One pass of the for loop over edges[id] with the loaded label and the outcome
\* of the draw (used only on a tie).
Tally(t, nbr_label, draw) ==
    LET count == t.label_counts[nbr_label] + 1
        t1    == [t EXCEPT !.label_counts[nbr_label] = count, !.idx = @ + 1]
    IN  IF count > t.max_count
        THEN [t1 EXCEPT !.max_count = count, !.new_label = nbr_label, !.counter = 1]
        ELSE IF count = t.max_count
        THEN [t1 EXCEPT !.new_label = IF draw THEN nbr_label ELSE @,
                        !.counter = @ + 1]
        ELSE t1

\* The labels the whole for loop of vertex v can end with when every load
\* returns the value of `labels`, over all outcomes of the draws.
RECURSIVE ScanOutcomes(_, _, _)
ScanOutcomes(t, v, labels) ==
    IF t.idx > Len(edges[v]) THEN {t.new_label}
    ELSE UNION {ScanOutcomes(Tally(t, labels[edges[v][t.idx]], draw), v, labels) :
                    draw \in GenRatio(t.counter + 1)}

\* Task v loads its next neighbour's cell and tallies it.
TaskScan(v) ==
    /\ pc = "round"
    /\ task[v].at = "scan"
    /\ LET t         == task[v]
           nbr       == edges[v][t.idx]
           nbr_label == atomic_vertices[nbr]
       IN  \E draw \in GenRatio(t.counter + 1) :
             LET t2 == Tally(t, nbr_label, draw)
             IN  task' = [task EXCEPT ![v] =
                            IF t2.idx > Len(edges[v])
                            THEN [t2 EXCEPT !.at = "swap"] ELSE t2]
    /\ UNCHANGED <<inputs, pc, graph, tracker, community, modularity, atomic_vertices,
                   active, iteration, round_start>>

\* Mutant: every swap is counted.
Changed_Always(old, new_label) == TRUE

\* Mutant: a changed label is never counted.
Changed_Never(old, new_label) == FALSE

\* The test on the swapped-out value.
Changed(old, new_label) == old # new_label

\* Mutant: a swap that changed the cell is done once more.
TaskSwap_Twice(v) ==
    /\ pc = "round"
    /\ task[v].at = "swap"
    /\ atomic_vertices' = [atomic_vertices EXCEPT ![v] = task[v].new_label]
    /\ task' = [task EXCEPT ![v] =
                  IF Changed(atomic_vertices[v], task[v].new_label)
                  THEN task[v]
                  ELSE [Idle EXCEPT !.at = "done"]]
    /\ UNCHANGED <<inputs, pc, graph, tracker, community, modularity, active, iteration,
                   round_start>>

\* label.swap(new_label, Release)
TaskSwap(v) ==
    /\ pc = "round"
    /\ task[v].at = "swap"
    /\ atomic_vertices' = [atomic_vertices EXCEPT ![v] = task[v].new_label]
    /\ task' = [task EXCEPT ![v] =
                  IF Changed(atomic_vertices[v], task[v].new_label)
                  THEN [Idle EXCEPT !.at = "changed"]
                  ELSE [Idle EXCEPT !.at = "done"]]
    /\ UNCHANGED <<inputs, pc, graph, tracker, community, modularity, active, iteration,
                   round_start>>

\* active.fetch_add(1, Relaxed)
TaskCount(v) ==
    /\ pc = "round"
    /\ task[v].at = "changed"
    /\ active' = active + 1
    /\ task' = [task EXCEPT ![v] = [Idle EXCEPT !.at = "done"]]
    /\ UNCHANGED <<inputs, pc, graph, tracker, community, modularity, atomic_vertices,
                   iteration, round_start>>

\* Mutant: for_each returns as soon as one task has returned.
Joined_AnyDone == \E v \in DOMAIN task : task[v].at = "done"

\* for_each has returned: every task of the round is done.
Joined == \A v \in DOMAIN task : task[v].at = "done"

\* After the join: the snapshot of the cells, its statistics, the tracker's
\* update and iteration += 1.
Evaluate ==
    /\ pc = "round"
    /\ Joined
    /\ LET new_vertices == atomic_vertices
           stat         == statistics(new_vertices, edges, nedges)
       IN  /\ community' = stat[1]
           /\ modularity' = stat[2]
           /\ IF Improves(stat[2], best_modularity)
              THEN /\ vertices' = new_vertices
                   /\ best_community' = stat[1]
                   /\ best_modularity' = stat[2]
              ELSE UNCHANGED tracker
    /\ iteration' = iteration + 1
    /\ task' = [v \in DOMAIN task |-> Idle]
    /\ pc' = "loop"
    /\ UNCHANGED <<inputs, graph, atomic_vertices, active, round_start>>

Next ==
    \/ Load
    \/ LpaInit
    \/ BeginRound
    \/ \E v \in DOMAIN task : TaskScan(v)
    \/ \E v \in DOMAIN task : TaskSwap(v)
    \/ \E v \in DOMAIN task : TaskCount(v)
    \/ Evaluate
    \/ Return

Spec == Init /\ [][Next]_vars

\* The main thread and rayon's workers run without blocking: a step that can be
\* taken is taken.
FairSpec == Spec /\ WF_vars(Next)

---------------------------------------------------------------------------
(* The two triangles *)

\* Every task of the components before v's has returned.
ComponentTurn(v) ==
    \A u \in DOMAIN task : component[u] < component[v] => task[u].at = "done"

\* A task loads only cells of its own connected component and writes only its
\* own cell, and `active` is read only after the join, so the steps of tasks
\* of different components commute: every joined round of the free
\* interleaving is also the result of a run that takes the components one
\* after the other, with the tasks of one component interleaving freely.
\* NextByComponent keeps those runs only; it makes two rounds over the six
\* vertices of the triangles explorable.
NextByComponent ==
    \/ Load
    \/ LpaInit
    \/ BeginRound
    \/ \E v \in DOMAIN task : ComponentTurn(v) /\ TaskScan(v)
    \/ \E v \in DOMAIN task : ComponentTurn(v) /\ TaskSwap(v)
    \/ \E v \in DOMAIN task : ComponentTurn(v) /\ TaskCount(v)
    \/ Evaluate
    \/ Return

SpecTriangles == InitWith({TrianglesFile}) /\ [][NextByComponent]_vars

\* The triangle with an isolated vertex, every interleaving.
SpecIsolated == InitWith({IsolatedFile}) /\ [][Next]_vars


---------------------------------------------------------------------------
(* The closure's for loop as a function of the labels it loads *)

\* The closure of the star's centre is about to run, the other closures of the
\* round have returned, and the cells of the neighbours hold any labels among
\* the first MaxVertices ids: the loop reads every sequence of MaxReads labels.
InitStar ==
    /\ file = StarFile
    /\ limit = 1
    /\ pc = "round"
    /\ vertices = [v \in Ids(StarFile.nvertices) |-> v]
    /\ edges = Adjacency(StarFile.nvertices, StarFile.rows)
    /\ nedges = StarFile.nedges
    /\ component = [v \in Ids(StarFile.nvertices) |-> 0]
    /\ community = StarFile.nvertices
    /\ modularity = Modularity(vertices, edges, nedges)
    /\ atomic_vertices \in [Ids(StarFile.nvertices) -> Ids(MaxVertices)]
    /\ active = 0
    /\ iteration = 0
    /\ best_community = 0
    /\ best_modularity = Sentinel
    /\ task = [v \in Ids(StarFile.nvertices) |->
                 IF v = 0 THEN Started(0) ELSE [Idle EXCEPT !.at = "done"]]
    /\ round_start = atomic_vertices

NextStar ==
    \/ TaskScan(0)
    \/ TaskSwap(0)
    \/ TaskCount(0)

SpecStar == InitStar /\ [][NextStar]_vars

---------------------------------------------------------------------------
(* Vocabulary of the properties *)

\* The input contract: at least one vertex, every row within [0, nvertices).
ValidInput == file.nvertices > 0 /\ RowsInRange(file)

\* The header's edge count is the number of rows.
Truthful == file.nedges = Len(file.rows)

\* label[v] = v
Singletons == [v \in Ids(file.nvertices) |-> v]

\* statistics has been called at least once.
Evaluated == pc \in {"loop", "round", "done"}

\* A round has just been joined and evaluated with active = 0.
Converged == pc = "loop" /\ iteration >= 1 /\ active = 0

\* Number of entries of v's neighbour list whose cell holds L.
TallyOf(v, labels, L) ==
    Cardinality({i \in 1 .. Len(edges[v]) : labels[edges[v][i]] = L})

\* The neighbour labels of v with the largest tally.
Tied(v, labels) ==
    {L \in {labels[edges[v][i]] : i \in 1 .. Len(edges[v])} :
        \A K \in DOMAIN labels : TallyOf(v, labels, K) <= TallyOf(v, labels, L)}

---------------------------------------------------------------------------
(* Properties *)

\* C1: with round_limit = 0 on a valid graph, lpa runs no round and returns the
\* statistics of the singleton assignment: community_count = vertex_count and
\* the modularity of label[v] = v.  (Stated for graphs with at least one edge
\* and a truthful header, where that modularity is a number.)
C1_LimitZeroReturnsSingletonStatistics ==
    (pc = "done" /\ limit = 0 /\ ValidInput /\ Truthful /\ nedges > 0) =>
        /\ iteration = 0
        /\ best_community = file.nvertices
        /\ FEq(best_modularity, Modularity(Singletons, edges, nedges))

\* C2: with edge_count = 0, every modularity statistics returns is a defined
\* number, and so is the modularity lpa returns.
C2_ZeroEdgesModularityDefined ==
    (Evaluated /\ file.rows = <<>> /\ nedges = 0) =>
        ~IsNaN(modularity) /\ ~IsNaN(best_modularity)

\* C3: invalid input (no vertex, or a row outside [0, vertex_count)) is rejected
\* before the engine begins: no round is run and no result is returned.
C3_InvalidInputRejected ==
    ~ValidInput => pc \notin {"round", "done"}

\* C4: the stored best is that of the earliest round attaining the maximum
\* modularity seen so far.  After the first round's evaluation that round is
\* the only one seen, so the best snapshot is that round's assignment,
\* community count and modularity.
C4_BestIsEarliestMaximum ==
    (pc = "loop" /\ iteration = 1 /\ ValidInput /\ Truthful) =>
        /\ vertices = atomic_vertices
        /\ best_community = community
        /\ best_modularity = modularity

\* The replacement rule of C4 alone: an evaluation replaces the snapshot exactly
\* when the round's modularity is strictly greater than the stored one, with
\* that round's three values, and otherwise leaves all three unchanged.
ReplacedIffStrictlyGreater ==
    [][(pc = "round" /\ pc' = "loop") =>
          IF Gt(modularity', best_modularity)
          THEN /\ vertices' = atomic_vertices
               /\ best_community' = community'
               /\ best_modularity' = modularity'
          ELSE UNCHANGED tracker]_vars

\* C5: the best modularity recorded never decreases from one round to the next.
C5_BestModularityMonotonic ==
    [][Ge(best_modularity', best_modularity)]_vars

\* A second or later round scored below the recorded best, which was kept.
C5_Witness ==
    /\ pc = "loop"
    /\ iteration >= 2
    /\ Gt(best_modularity, Sentinel)
    /\ Gt(best_modularity, modularity)

\* C6: on the path 0-1-2-3 the modularity lpa returns is at least that of the
\* singleton assignment, for every limit (stated for limit >= 1, where at
\* least one round is scored).
C6_PathBestAtLeastSingletons ==
    (file = PathFile /\ pc = "done" /\ limit >= 1) =>
        Ge(best_modularity, Modularity(Singletons, edges, nedges))

\* The assignments a round can produce from `labels` when every task loads
\* before any task swaps.
SynchronousRounds(labels) ==
    {next \in [DOMAIN labels -> DOMAIN labels] :
        \A v \in DOMAIN labels : next[v] \in ScanOutcomes(Locals(v, labels), v, labels)}

\* Two successive rounds can change labels and return to `labels`.
CanAlternate(labels) ==
    \E next \in SynchronousRounds(labels) :
        next # labels /\ labels \in SynchronousRounds(next)

\* C7 as stated: on the two triangles every run, whatever the draws and the
\* interleaving, has a round with active = 0 within a bounded number of rounds.
\* Then no assignment left by a round admits two successive rounds that change
\* labels and return to it: repeating them exceeds every bound.
C7_TrianglesAlwaysConverge ==
    (pc = "loop" /\ iteration >= 1) => ~CanAlternate(atomic_vertices)

\* C7 with the bound taken as the rounds allowed: lpa returns 2 communities
\* with modularity 0.5.
C7_TrianglesConvergeWithinLimit ==
    (pc = "done" /\ limit = MaxLimit) =>
        best_community = 2 /\ FEq(best_modularity, Frac(1, 2))

\* C7 amended: on the two triangles a round that ends with active = 0 leaves
\* one label per triangle, hence exactly 2 communities with modularity 0.5,
\* and that is the best lpa has recorded.
C7_ConvergedTrianglesAreTwoCommunities ==
    (pc \in {"loop", "done"} /\ iteration >= 1 /\ active = 0) =>
        /\ \A u, v \in DOMAIN atomic_vertices :
              component[u] = component[v] <=> atomic_vertices[u] = atomic_vertices[v]
        /\ community = 2
        /\ FEq(modularity, Frac(1, 2))
        /\ best_community = 2
        /\ FEq(best_modularity, Frac(1, 2))

\* The two triangles have converged.
C7_Witness ==
    file = TrianglesFile /\ Converged /\ community = 2

\* C8 as stated: after a round with active = 0, one more round on the same
\* assignment ends with active = 0 and every label unchanged for every outcome
\* of the draws and every interleaving.  While no cell changes every load
\* returns the converged assignment, so this holds exactly when the for loop
\* of every vertex can only end with the vertex's own label.
C8_ConvergedIsFixedPoint ==
    Converged =>
        \A v \in DOMAIN atomic_vertices :
            ScanOutcomes(Locals(v, atomic_vertices), v, atomic_vertices)
                = {atomic_vertices[v]}

\* C8 amended: a round with active = 0 left every label unchanged, and every
\* vertex's label is one its update can select on that assignment (a most
\* frequent label among its neighbours'), so one more round can again change
\* nothing; it changes nothing for every outcome where no other label is tied
\* with the most frequent one.
C8_ConvergedCanRepeat ==
    Converged =>
        /\ atomic_vertices = round_start
        /\ \A v \in DOMAIN atomic_vertices :
             LET outcomes == ScanOutcomes(Locals(v, atomic_vertices), v, atomic_vertices)
             IN  /\ atomic_vertices[v] \in outcomes
                 /\ Len(edges[v]) > 0 => atomic_vertices[v] \in Tied(v, atomic_vertices)
                 /\ Cardinality(Tied(v, atomic_vertices)) <= 1 =>
                        outcomes = {atomic_vertices[v]}

\* A converged assignment in which some vertex has two labels tied.
C8_Witness ==
    /\ Converged
    /\ \E v \in DOMAIN atomic_vertices : Cardinality(Tied(v, atomic_vertices)) >= 2

\* C9 as stated: lpa runs at most round_limit rounds and exits Converged
\* (active = 0) or LimitReached (round_index = limit).
C9_ExitsConvergedOrLimitReached ==
    (pc = "done" /\ ValidInput) =>
        iteration <= limit /\ (active = 0 \/ iteration = limit)

C9_Safety ==
    /\ limit >= 0 => iteration <= limit
    /\ limit < 0 => iteration = 0
    /\ (pc = "done" /\ limit >= 0) => (active = 0 \/ iteration = limit)
    /\ (pc = "done" /\ limit < 0) => active = file.nvertices
    /\ (pc = "done" /\ active = 0 /\ iteration >= 1) => atomic_vertices = round_start

C9_Step ==
    /\ (pc = "loop" /\ pc' = "round") => (iteration < limit /\ active > 0)
    /\ (pc = "loop" /\ pc' = "done") => ~(iteration < limit /\ active > 0)
    /\ iteration' \in {iteration, iteration + 1}
    /\ iteration' = iteration + 1 <=> (pc = "round" /\ pc' = "loop")

\* C9 amended: lpa always terminates; it runs a further round exactly when
\* round_index < limit and active > 0; for limit >= 0 it runs at most limit
\* rounds and exits with active = 0 (the last round changed no label) or with
\* round_index = limit; for a negative limit it runs no round and exits with
\* round_index = 0 and active = vertex_count.
C9_TerminatesWithinLimit ==
    /\ []C9_Safety
    /\ [][C9_Step]_vars
    /\ (pc = "init") ~> (pc = "done")

\* lpa has returned after two rounds, the first of which changed labels and
\* the second none.
C9_Witness ==
    pc = "done" /\ iteration = 2 /\ active = 0 /\ atomic_vertices # Singletons

\* C10: with round_limit > 0, lpa runs at least one round.
C10_PositiveLimitRunsARound ==
    (pc = "done" /\ limit > 0) => iteration >= 1

\* The vertices without neighbours.
Isolated == {v \in DOMAIN edges : Len(edges[v]) = 0}

\* The term of the community of label L in the modularity of `labels`.
Contribution(L, labels) == Term(Communities(labels)[L], edges, nedges)

\* C11: a vertex v without neighbours keeps label[v] = v in every round, never
\* increments the active counter, and its community contributes exactly 0 to
\* the modularity (stated for valid input with a truthful header).
C11_IsolatedVertexKeepsLabel ==
    (Evaluated /\ ValidInput /\ Truthful) =>
        \A v \in Isolated :
            /\ atomic_vertices[v] = v
            /\ task[v].at # "changed"
            /\ iteration >= 1 => FEq(Contribution(v, atomic_vertices), Frac(0, 1))

\* The part of C11 that does not divide by the edge count, with what makes the
\* contribution 0 when it is a number: the community of label v is {v} alone.
C11_IsolatedLabelAndActive ==
    Evaluated =>
        \A v \in Isolated :
            /\ atomic_vertices[v] = v
            /\ vertices[v] = v
            /\ task[v].at # "changed"
            /\ Communities(atomic_vertices)[v] = {v}
            /\ nedges > 0 => FEq(Contribution(v, atomic_vertices), Frac(0, 1))

\* C12: in every state of lpa (before round 0, inside a round, after a round)
\* the assignment has length vertex_count and every label is a vertex id in
\* [0, vertex_count): the cells, the label a task is about to write, and the
\* best assignment kept in `vertices`; label[v] = v before round 0; so
\* statistics indexes `communities` within bounds.
C12_LabelsAreVertexIds ==
    Evaluated =>
        /\ DOMAIN atomic_vertices = Ids(file.nvertices)
        /\ DOMAIN vertices = Ids(file.nvertices)
        /\ \A v \in DOMAIN atomic_vertices :
              /\ atomic_vertices[v] \in Ids(file.nvertices)
              /\ vertices[v] \in Ids(file.nvertices)
              /\ task[v].at \in {"scan", "swap"} => task[v].new_label \in Ids(file.nvertices)
        /\ (pc = "loop" /\ iteration = 0) => atomic_vertices = Singletons
        /\ iteration = 0 => vertices = Singletons

\* Inside a round: a cell already holds another vertex's id while another task
\* is still reading.
C12_Witness ==
    /\ pc = "round"
    /\ \E v \in DOMAIN atomic_vertices : atomic_vertices[v] # v
    /\ \E u \in DOMAIN task : task[u].at = "scan"

\* C13: for edge_count > 0 the modularity statistics returns, for any label
\* assignment, lies in [-1, 1].
C13_ModularityInRange ==
    (Evaluated /\ nedges > 0) =>
        Ge(modularity, Frac(-1, 1)) /\ Ge(Frac(1, 1), modularity)

\* C13 where the header's edge count is the number of rows load delivered.
C13_TruthfulModularityInRange ==
    (Evaluated /\ nedges > 0 /\ Truthful) =>
        Ge(modularity, Frac(-1, 1)) /\ Ge(Frac(1, 1), modularity)

\* No closure is running outside a round.
C14_Inv ==
    pc # "round" => \A v \in DOMAIN task : task[v].at = "idle"

C14_Step ==
    /\ (pc = "round" /\ pc' = "loop") => \A v \in DOMAIN task : task[v].at = "done"
    /\ (\/ community' # community
        \/ modularity' # modularity
        \/ tracker' # tracker
        \/ iteration' # iteration) =>
           \/ pc \in {"load", "init"}
           \/ /\ pc = "round"
              /\ \A v \in DOMAIN task : task[v].at = "done"
              /\ atomic_vertices' = atomic_vertices
              /\ community' = CommunityCount(atomic_vertices)
              /\ modularity' = Modularity(atomic_vertices, edges, nedges)
              /\ vertices' # vertices => vertices' = atomic_vertices
              /\ pc' = "loop"
    /\ atomic_vertices' # atomic_vertices => (pc = "init" \/ (pc = "round" /\ pc' = "round"))
    /\ pc' = "done" => (pc \in {"loop", "done"} /\ UNCHANGED tracker)

\* C14: statistics and the best tracker only see the assignment of a joined
\* round.  A round's evaluation happens when every task of the round has
\* returned, it scores exactly the cells as they are then, and it is the only
\* step after lpa's start that changes the scores, the best snapshot or the
\* round counter; cells change only inside a round, no closure runs outside a
\* round, and the return leaves the snapshot as the last evaluation left it.
C14_OnlyJoinedRoundsEvaluated ==
    []C14_Inv /\ [][C14_Step]_vars

\* A round in which both ends of an edge changed label has been joined,
\* scored and stored as the best.
C14_Witness ==
    /\ pc = "loop"
    /\ iteration >= 1
    /\ active >= 2
    /\ vertices = atomic_vertices
    /\ vertices # Singletons

\* The task of v has done its swap in the current round.
Written(v) == task[v].at \in {"changed", "done"}

\* Until its swap, a task's cell holds the label of the start of the round.
C15_Inv ==
    pc = "round" =>
        \A v \in DOMAIN task : ~Written(v) => atomic_vertices[v] = round_start[v]

C15_Step ==
    \A v \in DOMAIN task :
        \* a cell changes only by its own task's swap, which writes new_label
        /\ (pc # "init" /\ atomic_vertices'[v] # atomic_vertices[v]) =>
              /\ pc = "round" /\ task[v].at = "swap"
              /\ \A u \in DOMAIN task \ {v} : atomic_vertices'[u] = atomic_vertices[u]
        \* every task swaps, changed label or not, and has then written
        /\ (task[v].at = "swap" /\ task'[v] # task[v]) =>
              /\ atomic_vertices'[v] = task[v].new_label
              /\ task'[v].at \in {"changed", "done"}
        \* and does not write again before the round is joined
        /\ (pc = "round" /\ Written(v)) =>
              /\ atomic_vertices'[v] = atomic_vertices[v]
              /\ task'[v].at \in {"changed", "done", "idle"}
              /\ task'[v].at = "idle" => \A u \in DOMAIN task : task[u].at = "done"
        \* a load of neighbour u's cell returns u's label at the start of the
        \* round, or the label u's task has written in this round
        /\ (task[v].at = "scan" /\ task'[v] # task[v]) =>
              LET u == edges[v][task[v].idx]
              IN  \E L \in DOMAIN atomic_vertices :
                    /\ task'[v].label_counts =
                           [task[v].label_counts EXCEPT ![L] = @ + 1]
                    /\ \/ L = round_start[u]
                       \/ Written(u) /\ L = atomic_vertices[u]

\* C15: within a round each label cell is written exactly once, by its own
\* vertex's task, so every value a task reads for a neighbour u is u's label
\* at the start of the round or the label u's task writes in that round.
C15_SingleWriterCells ==
    []C15_Inv /\ [][C15_Step]_vars

\* A task has tallied a label that none of its neighbours held when the round
\* started: it read a label written in this round.
C15_Witness ==
    /\ pc = "round"
    /\ \E v \in DOMAIN task :
          /\ task[v].at \in {"scan", "swap"}
          /\ \E L \in DOMAIN atomic_vertices :
                /\ task[v].label_counts[L] > 0
                /\ \A i \in 1 .. Len(edges[v]) : round_start[edges[v][i]] # L

\* The vertices whose cell differs from its value at the start of the round.
Relabelled == {v \in DOMAIN atomic_vertices : atomic_vertices[v] # round_start[v]}

\* C16: when a round has joined, active is exactly the number of vertices
\* whose label after the round differs from their label before it, whatever
\* the interleaving of swaps and increments.  Inside the round the counter,
\* reset to 0 at the fork, is the number of such vertices whose task has
\* returned.
C16_ActiveCountsChangedLabels ==
    /\ pc = "round" =>
          active = Cardinality({v \in Relabelled : task[v].at = "done"})
    /\ (pc \in {"loop", "done"} /\ iteration >= 1) =>
          active = Cardinality(Relabelled)

\* A joined round in which several labels changed and some did not.
C16_Witness ==
    /\ pc = "loop"
    /\ iteration >= 1
    /\ active >= 2
    /\ active < file.nvertices

\* The largest tally among the labels task v has loaded so far.
MaxTally(v) ==
    CHOOSE n \in {task[v].label_counts[L] : L \in DOMAIN task[v].label_counts} :
        \A L \in DOMAIN task[v].label_counts : task[v].label_counts[L] <= n

\* C17: for a vertex with at least one neighbour the labels the for loop can
\* select are exactly the labels with the largest tally among the labels it
\* read.  While it reads: max_count is the largest tally, new_label has that
\* tally and counter is the number of labels that have it; over all outcomes
\* of the draws, a loop that reads the cells of a state can end with each of
\* the labels tied at the largest tally and with no other.
C17_SelectsExactlyTheTiedLabels ==
    \A v \in DOMAIN task :
        /\ (task[v].at \in {"scan", "swap"} /\ task[v].idx > 1) =>
              /\ task[v].max_count = MaxTally(v)
              /\ task[v].label_counts[task[v].new_label] = MaxTally(v)
              /\ task[v].counter =
                    Cardinality({L \in DOMAIN task[v].label_counts :
                                    task[v].label_counts[L] = MaxTally(v)})
        /\ (pc = "round" /\ Len(edges[v]) > 0) =>
              ScanOutcomes(Locals(v, atomic_vertices), v, atomic_vertices)
                  = Tied(v, atomic_vertices)

\* The loop has ended on a three-way tie with a label other than the first one
\* that reached the largest tally.
C17_Witness ==
    /\ task[0].at = "swap"
    /\ Len(edges[0]) = MaxReads
    /\ task[0].counter >= 3
    /\ task[0].max_count >= 2
    /\ task[0].new_label # atomic_vertices[edges[0][1]]

\* statistics of the assignment left in `vertices` is the returned pair.
Consistent ==
    /\ best_community = CommunityCount(vertices)
    /\ FEq(best_modularity, Modularity(vertices, edges, nedges))

\* C18: on return from lpa the assignment left in `vertices` is the tracked
\* best, statistics of it is exactly the returned (community_count,
\* modularity), and the sentinel (0, -1.0) is never returned (stated for valid
\* input with a truthful header, at least one edge and limit >= 0).
C18_ReturnedOutputConsistent ==
    (pc = "done" /\ ValidInput /\ Truthful /\ nedges > 0 /\ limit >= 0) =>
        /\ Consistent
        /\ ~(best_community = 0 /\ FEq(best_modularity, Sentinel))

\* C18 once some round has replaced the sentinel, for every input.
C18_ConsistentOnceReplaced ==
    (pc \in {"loop", "round", "done"} /\ best_modularity # Sentinel) => Consistent

\* On valid input with a truthful header and at least one edge, the first
\* round replaces the sentinel.
C18_FirstRoundReplacesSentinel ==
    (iteration >= 1 /\ ValidInput /\ Truthful /\ nedges > 0) =>
        best_modularity # Sentinel

\* C19: labels never leave their connected component: every cell, every label
\* a task is about to write and every label of the best assignment is the id
\* of a vertex in the same component as the vertex it labels, so no community
\* contains vertices of two components.
C19_LabelsStayInComponent ==
    Evaluated =>
        /\ \A v \in DOMAIN atomic_vertices :
              /\ component[atomic_vertices[v]] = component[v]
              /\ component[vertices[v]] = component[v]
              /\ task[v].at \in {"scan", "swap"} =>
                     component[task[v].new_label] = component[v]
        /\ \A u, v \in DOMAIN atomic_vertices :
              atomic_vertices[u] = atomic_vertices[v] => component[u] = component[v]

\* A graph with two components after a round that changed a label.
C19_Witness ==
    /\ pc = "loop"
    /\ iteration >= 1
    /\ \E u, v \in DOMAIN atomic_vertices :
          component[u] # component[v] /\ atomic_vertices[v] # v

\* The label values present in an assignment.
Labels(vs) == {vs[v] : v \in DOMAIN vs}

C20_Inv ==
    Evaluated =>
        /\ Labels(atomic_vertices) \subseteq Labels(round_start)
        /\ \A v \in DOMAIN task :
              task[v].at \in {"scan", "swap"} => task[v].new_label \in Labels(round_start)
        /\ community <= file.nvertices

C20_Step ==
    (pc = "round" /\ pc' = "loop") =>
        /\ community' = Cardinality(Labels(atomic_vertices))
        /\ community' <= community

\* C20: no round creates a label: at every point of a round the labels in the
\* cells, and the label any task is about to write, are among the labels
\* present when the round started, so the community count statistics reports
\* never increases from one round to the next and never exceeds vertex_count.
C20_NoRoundCreatesALabel ==
    []C20_Inv /\ [][C20_Step]_vars

\* Two rounds have each removed a label.
C20_Witness ==
    /\ pc = "loop"
    /\ iteration = 2
    /\ community < Cardinality(Labels(round_start))
    /\ Cardinality(Labels(round_start)) < file.nvertices

====
